---- MODULE Spec2Model ----
(***************************************************************************)
(* The gateway service (src/src/gateway-service/server.py): the four       *)
(* Flask handlers login, upload, download and health_check, the            *)
(* process-wide store and broker handles, and the collaborators they call. *)
(* Requests are served by concurrent tasks; a task suspends only inside a  *)
(* blocking collaborator call (fs.put, basic_publish, fs_mp3s.get), so a   *)
(* handler is modelled as the code segments between those calls.           *)
(*                                                                         *)
(* validate.token, access.login and util.upload belong to the repository   *)
(* but their source is not available; they are modelled from spec.md       *)
(* sections 4.1 and 4.2.                                                   *)
(***************************************************************************)
EXTENDS Integers, Sequences, FiniteSets, TLC

(* ------------------------------ bounds --------------------------------- *)
\* number of request tasks served concurrently
NumTasks == 2
\* largest number of file parts a multipart upload carries
MaxParts == 2
\* number of objects the video store accepts before every put fails (quota)
MaxObjects == 2

Tasks == 1..NumTasks

(* ------------------------------ values --------------------------------- *)
\* bson ObjectId: a str argument must be 24 hexadecimal characters
OidLen == 24
HexChars == {"0", "1", "2", "3", "4", "5", "6", "7", "8", "9",
             "a", "b", "c", "d", "e", "f"}

\* a response: (body, status) as Flask sends it
Resp(status, body) ==
    [status |-> status, body |-> body, download_name |-> <<>>,
     health |-> <<FALSE, FALSE, FALSE>>]

\* Python None in the err position of a (value, err) pair
NoErr == Resp(0, "None")

\* the access claim the Identity service returns as text for a valid token
Claim(wellformed, hasAdmin, admin, username) ==
    [wellformed |-> wellformed, hasAdmin |-> hasAdmin, admin |-> admin,
     username |-> username]
NoClaim == Claim(FALSE, FALSE, FALSE, "")

\* the tokens a request may carry, and the claim text of the valid ones
TokenKinds == {"missing", "invalid", "admin", "user", "noflag", "garbled"}
ClaimText(token) ==
    CASE token = "admin"   -> Claim(TRUE, TRUE, TRUE, "alice")
      [] token = "user"    -> Claim(TRUE, TRUE, FALSE, "bob")
      [] token = "noflag"  -> Claim(TRUE, FALSE, FALSE, "carol")
      [] token = "garbled" -> Claim(FALSE, FALSE, FALSE, "")
      [] OTHER             -> NoClaim

\* token and Identity service state of a request: the service, when it is
\* down, fails every validation the same way, whatever the token
AuthInputs ==
    {<<k, "up">> : k \in TokenKinds} \cup {<<"admin", "unavailable">>, <<"admin", "raise">>}

\* form field names of the file parts
FieldNames == {"file", "video"}
RECURSIVE SeqsUpTo(_, _)
SeqsUpTo(S, n) ==
    IF n = 0 THEN {<<>>}
    ELSE LET shorter == SeqsUpTo(S, n - 1)
         IN  shorter \cup {Append(s, x) : s \in {q \in shorter : Len(q) = n - 1}, x \in S}
FileInputs == SeqsUpTo(FieldNames, MaxParts)

\* the fid query strings tried, as character sequences
Chars(n, c) == [i \in 1..n |-> c]
GoodFid == Chars(OidLen, "a")
FidInputs == {<<>>, <<"n", "o", "t", "-", "a", "n", "-", "i", "d">>,
              GoodFid, Chars(OidLen, "z"), Chars(OidLen - 1, "a")}
Mp3Ext == <<".", "m", "p", "3">>

Outcomes == {"ok", "err", "raise"}

\* Task 1 serves requests of every shape.  The other tasks serve the traffic
\* that can interleave with it: the requests that reach a blocking
\* collaborator call (an admin upload of one part, an admin download of a
\* well-formed fid); every other request runs to its response without
\* suspending and touches no shared state.
UploadInputs(t) ==
    IF t = 1 THEN AuthInputs \X FileInputs
    ELSE {<<<<"admin", "up">>, <<"file">>>>}
DownloadInputs(t) ==
    IF t = 1
    THEN AuthInputs \X ({<<TRUE, f>> : f \in FidInputs} \cup {<<FALSE, <<>>>>})
    ELSE {<<<<"admin", "up">>, <<TRUE, GoodFid>>>>}

VARIABLES
    pc,         \* per task: "idle", suspended in a call ("in_put", "in_publish", "in_get"), "done"
    req,        \* per task: the request being served
    val,        \* per task: what validate.token returned for it
    access,     \* per task: the claim text held in the local access
    calls,      \* per task: the collaborator calls made so far, in order, with outcomes
    sent,       \* per task: the responses returned for the request
    putId,      \* per task: the id fs.put returned (0: none)
    published,  \* per task: the job descriptor handed to basic_publish
    fs_videos,  \* the ids of the objects in the video store
    nextId,     \* the last id the video store generated
    queue,      \* the messages the broker accepted, in order
    orphaned,   \* ids written by a request whose publish then failed
    handles     \* the module-level names bound at startup, lines 21-35

vars == <<pc, req, val, access, calls, sent, putId, published,
          fs_videos, nextId, queue, orphaned, handles>>

(* ------------------------- pure helpers -------------------------------- *)
\* validate.token(request): (access, err).  Modelled from spec.md 4.1: a
\* missing token fails as Unauthenticated before the Identity service is
\* contacted; the service may be unreachable (the call raises, or reports a
\* 5xx), reject the token (401), or return the claim text.
validate_token(token, idp) ==
    IF token = "missing"
    THEN [kind |-> "err", err |-> Resp(401, "missing credentials"), access |-> NoClaim]
    ELSE IF idp = "raise"
    THEN [kind |-> "raise", err |-> NoErr, access |-> NoClaim]
    ELSE IF idp = "unavailable"
    THEN [kind |-> "err", err |-> Resp(503, "service unavailable"), access |-> NoClaim]
    ELSE IF token = "invalid"
    THEN [kind |-> "err", err |-> Resp(401, "invalid token"), access |-> NoClaim]
    ELSE [kind |-> "ok", err |-> NoErr, access |-> ClaimText(token)]

\* access.login(request): (token, err), modelled from spec.md section 6
access_login(out) ==
    CASE out = "ok"  -> [kind |-> "ok", token |-> Resp(200, "token"), err |-> NoErr]
      [] out = "err" -> [kind |-> "err", token |-> NoErr,
                         err |-> Resp(401, "invalid credentials")]
      [] OTHER       -> [kind |-> "raise", token |-> NoErr, err |-> NoErr]

\* variant: the flag is read with a default, so a claim without it is not admin
admin_lookup_defaults(text) == FALSE

\* variant: a missing object is answered 404
download_result_not_found(out, fid) ==
    IF out = "ok"
    THEN [Resp(200, "file") EXCEPT !.download_name = fid \o Mp3Ext]
    ELSE IF out = "err" THEN Resp(404, "not found")
    ELSE Resp(500, "internal server error")

\* json.loads(access) followed by access["admin"]: raises on a body that is
\* not JSON (JSONDecodeError) and on one without the key (KeyError)
json_loads_raises(text) == ~text.wellformed
admin_lookup_raises(text) == ~text.hasAdmin

\* variant: the exception is not caught and the handler returns nothing
handler_except_escapes(route) == NoErr

\* the except clause of a handler: jsonify({"error": str(e)}), 500
handler_except(route) == Resp(500, "error")

\* len(request.files): request.files is a werkzeug MultiDict, a dict from
\* field name to the list of its parts, so len counts distinct field names
len_files(files) == Cardinality({files[i] : i \in 1..Len(files)})

\* ObjectId(fid_string) raises InvalidId unless the string is 24 hex digits
ObjectId_raises(s) ==
    ~(Len(s) = OidLen /\ \A i \in 1..Len(s) : s[i] \in HexChars)

\* variant: the file count is checked before the token validation result
upload_gate_count_first(r, v) ==
    IF v.kind = "raise" THEN [proceed |-> FALSE, resp |-> handler_except("upload")]
    ELSE IF len_files(r.files) > 1 \/ len_files(r.files) < 1
    THEN [proceed |-> FALSE, resp |-> Resp(400, "exactly 1 file required")]
    ELSE IF v.err # NoErr THEN [proceed |-> FALSE, resp |-> v.err]
    ELSE IF json_loads_raises(v.access) \/ admin_lookup_raises(v.access)
    THEN [proceed |-> FALSE, resp |-> handler_except("upload")]
    ELSE IF v.access.admin
    THEN [proceed |-> TRUE, resp |-> NoErr]
    ELSE [proceed |-> FALSE, resp |-> Resp(401, "not authorized")]

\* variant: a valid token without admin is answered 403 on upload
upload_gate_forbidden(r, v) ==
    IF v.kind = "raise" THEN [proceed |-> FALSE, resp |-> handler_except("upload")]
    ELSE IF v.err # NoErr THEN [proceed |-> FALSE, resp |-> v.err]
    ELSE IF json_loads_raises(v.access) \/ admin_lookup_raises(v.access)
    THEN [proceed |-> FALSE, resp |-> handler_except("upload")]
    ELSE IF v.access.admin
    THEN IF len_files(r.files) > 1 \/ len_files(r.files) < 1
         THEN [proceed |-> FALSE, resp |-> Resp(400, "exactly 1 file required")]
         ELSE [proceed |-> TRUE, resp |-> NoErr]
    ELSE [proceed |-> FALSE, resp |-> Resp(403, "forbidden")]

\* upload, lines 64-76: the part of the handler before util.upload
upload_gate(r, v) ==
    IF v.kind = "raise" THEN [proceed |-> FALSE, resp |-> handler_except("upload")]
    ELSE IF v.err # NoErr THEN [proceed |-> FALSE, resp |-> v.err]
    ELSE IF json_loads_raises(v.access) \/ admin_lookup_raises(v.access)
    THEN [proceed |-> FALSE, resp |-> handler_except("upload")]
    ELSE IF v.access.admin
    THEN IF len_files(r.files) > 1 \/ len_files(r.files) < 1
         THEN [proceed |-> FALSE, resp |-> Resp(400, "exactly 1 file required")]
         ELSE [proceed |-> TRUE, resp |-> NoErr]
    ELSE [proceed |-> FALSE, resp |-> Resp(401, "not authorized")]

\* variant: util.upload's error is ignored
upload_result_always_success(err) == Resp(200, "success!")

\* variant: only the error's message is returned, with the default status
upload_result_drops_status(err) ==
    IF err # NoErr THEN [err EXCEPT !.status = 200] ELSE Resp(200, "success!")

\* variant: the test of util.upload's result is inverted
upload_result_inverted(err) ==
    IF err # NoErr THEN Resp(200, "success!") ELSE err

\* variant: the gateway remembers that an upload was queued and answers the
\* later ones differently
upload_result_stateful(err) ==
    IF err # NoErr THEN err
    ELSE IF queue # <<>> THEN Resp(200, "queued") ELSE Resp(200, "success!")

\* upload, lines 80-87: what the handler returns for util.upload's result
upload_result(err) ==
    IF err # NoErr THEN err ELSE Resp(200, "success!")

\* variant: download lets a valid token without admin through
download_gate_no_admin_check(r, v) ==
    IF v.kind = "raise" THEN [proceed |-> FALSE, resp |-> handler_except("download")]
    ELSE IF v.err # NoErr THEN [proceed |-> FALSE, resp |-> v.err]
    ELSE IF json_loads_raises(v.access) \/ admin_lookup_raises(v.access)
    THEN [proceed |-> FALSE, resp |-> handler_except("download")]
    ELSE IF ~r.fid_present \/ r.fid = <<>>
         THEN [proceed |-> FALSE, resp |-> Resp(400, "fid is required")]
         ELSE IF ObjectId_raises(r.fid)
         THEN [proceed |-> FALSE, resp |-> Resp(500, "internal server error")]
         ELSE [proceed |-> TRUE, resp |-> NoErr]

\* variant: fid_string is handed to fs_mp3s.get without the ObjectId parse
download_gate_no_parse(r, v) ==
    IF v.kind = "raise" THEN [proceed |-> FALSE, resp |-> handler_except("download")]
    ELSE IF v.err # NoErr THEN [proceed |-> FALSE, resp |-> v.err]
    ELSE IF json_loads_raises(v.access) \/ admin_lookup_raises(v.access)
    THEN [proceed |-> FALSE, resp |-> handler_except("download")]
    ELSE IF v.access.admin
    THEN IF ~r.fid_present \/ r.fid = <<>>
         THEN [proceed |-> FALSE, resp |-> Resp(400, "fid is required")]
         ELSE [proceed |-> TRUE, resp |-> NoErr]
    ELSE [proceed |-> FALSE, resp |-> Resp(401, "not authorized")]

\* download, lines 99-116: the part of the handler before fs_mp3s.get
download_gate(r, v) ==
    IF v.kind = "raise" THEN [proceed |-> FALSE, resp |-> handler_except("download")]
    ELSE IF v.err # NoErr THEN [proceed |-> FALSE, resp |-> v.err]
    ELSE IF json_loads_raises(v.access) \/ admin_lookup_raises(v.access)
    THEN [proceed |-> FALSE, resp |-> handler_except("download")]
    ELSE IF v.access.admin
    THEN IF ~r.fid_present \/ r.fid = <<>>
         THEN [proceed |-> FALSE, resp |-> Resp(400, "fid is required")]
         ELSE IF ObjectId_raises(r.fid)
         THEN [proceed |-> FALSE, resp |-> Resp(500, "internal server error")]
         ELSE [proceed |-> TRUE, resp |-> NoErr]
    ELSE [proceed |-> FALSE, resp |-> Resp(401, "not authorized")]

\* download, lines 116-121: the response for the outcome of fs_mp3s.get
download_result(out, fid) ==
    IF out = "ok"
    THEN [Resp(200, "file") EXCEPT !.download_name = fid \o Mp3Ext]
    ELSE Resp(500, "internal server error")

\* util.upload's error value, spec.md 4.2 steps 3 and 4 (ServerError)
util_upload_err == Resp(500, "internal server error")

\* the job descriptor util.upload publishes, spec.md section 3
JobDescriptor(fid, claim) == [objectId |-> fid, requestedBy |-> claim.username]
NoJob == [objectId |-> 0, requestedBy |-> ""]

\* util.upload after a failed publish: the written object is left in place
\* (spec.md 4.2: no rollback of the store write)
store_after_publish_failure(store, fid) == store

Call(fn, out) == [fn |-> fn, out |-> out]
SetOut(log, out) == [log EXCEPT ![Len(log)].out = out]

Request(route, token, idp, files, fid_present, fid, deps) ==
    [route |-> route, token |-> token, idp |-> idp, files |-> files,
     fid_present |-> fid_present, fid |-> fid, deps |-> deps,
     reach |-> <<TRUE, TRUE, TRUE>>]
AllUp == <<"ok", "ok", TRUE>>
NoRequest == Request("none", "missing", "up", <<>>, FALSE, <<>>, AllUp)
NoVal == [kind |-> "none", err |-> NoErr, access |-> NoClaim]

\* db.command("ping") on a store: a reachable store answers {"ok": 1}
\* ("ok"); against an unreachable one the driver raises, or the command
\* yields another document ("err")
ping_outcomes(reachable) == IF reachable THEN {"ok"} ELSE {"err", "raise"}

\* connection.is_open, line 136: the state flag of the connection object made
\* at startup.  It is not a probe: with heartbeat=0 (line 31) the connection
\* learns that the broker is gone only when a later I/O call on it fails, and
\* a connection closed that way is never reopened, so the flag may be either
\* value whatever the broker's state at the time of the request.
is_open_values(reachable) == BOOLEAN

\* variant: the probe is answered only for a valid admin token
health_result_admin_only(r) ==
    IF r.token # "admin" THEN Resp(401, "not authorized")
    ELSE IF r.deps[1] = "raise" \/ r.deps[2] = "raise"
    THEN handler_except("health")
    ELSE [Resp(200, "status") EXCEPT
             !.health = <<r.deps[1] = "ok", r.deps[2] = "ok", r.deps[3]>>]

\* health_check, lines 133-141: r.deps are the outcomes of the two pings and
\* the value of connection.is_open
health_result(r) ==
    IF r.deps[1] = "raise" \/ r.deps[2] = "raise"
    THEN handler_except("health")
    ELSE [Resp(200, "status") EXCEPT
             !.health = <<r.deps[1] = "ok", r.deps[2] = "ok", r.deps[3]>>]
health_calls(deps) ==
    IF deps[1] = "raise"
    THEN <<Call("mongo_video.ping", "raise")>>
    ELSE <<Call("mongo_video.ping", deps[1]), Call("mongo_mp3.ping", deps[2])>>

(* ------------------------------ state ---------------------------------- *)
\* the objects the module-level names are bound to at startup, lines 21-35
StartupHandles ==
    [mongo_video |-> "PyMongo(videos)", mongo_mp3 |-> "PyMongo(mp3s)",
     fs_videos |-> "GridFS(videos)", fs_mp3s |-> "GridFS(mp3s)",
     connection |-> "BlockingConnection(rabbitmq)", channel |-> "channel(1)"]

\* module startup, lines 19-40: both stores and the channel are connected,
\* no request is being served
Init ==
    /\ pc = [t \in Tasks |-> "idle"]
    /\ req = [t \in Tasks |-> NoRequest]
    /\ val = [t \in Tasks |-> NoVal]
    /\ access = [t \in Tasks |-> NoClaim]
    /\ calls = [t \in Tasks |-> <<>>]
    /\ sent = [t \in Tasks |-> <<>>]
    /\ putId = [t \in Tasks |-> 0]
    /\ published = [t \in Tasks |-> NoJob]
    /\ fs_videos = {}
    /\ nextId = 0
    /\ queue = <<>>
    /\ orphaned = {}
    /\ handles = StartupHandles

Free(t) == pc[t] = "idle"

\* the task takes a new request r and runs its handler up to the response
Respond(t, r, v, log, resp) ==
    /\ pc' = [pc EXCEPT ![t] = "done"]
    /\ req' = [req EXCEPT ![t] = r]
    /\ val' = [val EXCEPT ![t] = v]
    /\ access' = [access EXCEPT ![t] = v.access]
    /\ calls' = [calls EXCEPT ![t] = log]
    /\ sent' = [sent EXCEPT ![t] = <<resp>>]
    /\ putId' = [putId EXCEPT ![t] = 0]
    /\ published' = [published EXCEPT ![t] = NoJob]

\* the task takes a new request r and suspends in the collaborator call fn
Suspend(t, r, v, log, fn, at) ==
    /\ pc' = [pc EXCEPT ![t] = at]
    /\ req' = [req EXCEPT ![t] = r]
    /\ val' = [val EXCEPT ![t] = v]
    /\ access' = [access EXCEPT ![t] = v.access]
    /\ calls' = [calls EXCEPT ![t] = Append(log, Call(fn, "pending"))]
    /\ sent' = [sent EXCEPT ![t] = <<>>]
    /\ putId' = [putId EXCEPT ![t] = 0]
    /\ published' = [published EXCEPT ![t] = NoJob]

\* variant: a call that failed is made a second time before the response
Finish_retries(t, out, resp) ==
    /\ pc' = [pc EXCEPT ![t] = "done"]
    /\ calls' = [calls EXCEPT ![t] =
           IF out \in {"err", "raise"}
           THEN Append(SetOut(calls[t], out), Call(calls[t][Len(calls[t])].fn, out))
           ELSE SetOut(calls[t], out)]
    /\ sent' = [sent EXCEPT ![t] = Append(sent[t], resp)]
    /\ UNCHANGED <<req, val, access>>

\* a suspended task gets the result of its call and responds
Finish(t, out, resp) ==
    /\ pc' = [pc EXCEPT ![t] = "done"]
    /\ calls' = [calls EXCEPT ![t] = SetOut(calls[t], out)]
    /\ sent' = [sent EXCEPT ![t] = Append(sent[t], resp)]
    /\ UNCHANGED <<req, val, access>>

(* ----------------------------- handlers -------------------------------- *)
\* login, lines 43-56
login(t) ==
    /\ Free(t) /\ t = 1
    /\ \E out \in Outcomes :
         LET r == Request("login", "missing", "up", <<>>, FALSE, <<>>, AllUp)
             l == access_login(out)
             resp == IF l.kind = "raise" THEN handler_except("login")
                     ELSE IF l.err = NoErr THEN l.token ELSE l.err
         IN  Respond(t, r, NoVal, <<Call("access.login", out)>>, resp)
    /\ UNCHANGED <<fs_videos, nextId, queue, orphaned, handles>>

\* upload, lines 59-80: token validation, claim decoding, the admin and file
\* count checks, then the call of util.upload, whose first step is fs.put.
\* The loop over request.files.items() yields one pair per field name, so
\* past the count check it calls util.upload exactly once.
upload(t) ==
    /\ Free(t)
    /\ \E in \in UploadInputs(t) :
         LET r == Request("upload", in[1][1], in[1][2], in[2], FALSE, <<>>, AllUp)
             v == validate_token(r.token, r.idp)
             g == upload_gate(r, v)
             log == <<Call("validate.token", v.kind)>>
         IN  IF g.proceed
             THEN Suspend(t, r, v, log, "fs.put", "in_put")
             ELSE Respond(t, r, v, log, g.resp)
    /\ UNCHANGED <<fs_videos, nextId, queue, orphaned, handles>>

\* util.upload, spec.md 4.2 step 3: fs.put returns the new object's id, and
\* util.upload goes on to publish; or the write fails and util.upload
\* returns its error (or raises), which upload turns into the response
util_upload_put(t) ==
    /\ pc[t] = "in_put"
    /\ \E out \in Outcomes :
         IF out = "ok"
         THEN /\ nextId < MaxObjects
              /\ nextId' = nextId + 1
              /\ fs_videos' = fs_videos \cup {nextId + 1}
              /\ putId' = [putId EXCEPT ![t] = nextId + 1]
              /\ published' = [published EXCEPT ![t] = JobDescriptor(nextId + 1, access[t])]
              /\ pc' = [pc EXCEPT ![t] = "in_publish"]
              /\ calls' = [calls EXCEPT ![t] =
                     Append(SetOut(calls[t], "ok"), Call("basic_publish", "pending"))]
              /\ UNCHANGED <<req, val, access, sent>>
         ELSE /\ Finish(t, out, IF out = "raise" THEN handler_except("upload")
                                 ELSE upload_result(util_upload_err))
              /\ UNCHANGED <<fs_videos, nextId, putId, published>>
    /\ UNCHANGED <<queue, orphaned, handles>>

\* util.upload, spec.md 4.2 step 4, and upload, lines 82-87: the publish of
\* the job descriptor on the shared channel returns, and upload responds
util_upload_publish(t) ==
    /\ pc[t] = "in_publish"
    /\ \E out \in Outcomes :
         IF out = "ok"
         THEN /\ queue' = Append(queue, published[t])
              /\ Finish(t, out, upload_result(NoErr))
              /\ UNCHANGED <<fs_videos, orphaned>>
         ELSE /\ fs_videos' = store_after_publish_failure(fs_videos, putId[t])
              /\ orphaned' = orphaned \cup {putId[t]}
              /\ Finish(t, out, IF out = "raise" THEN handler_except("upload")
                                 ELSE upload_result(util_upload_err))
              /\ UNCHANGED queue
    /\ UNCHANGED <<nextId, putId, published, handles>>

\* download, lines 96-116: token validation, claim decoding, the admin and
\* fid checks, ObjectId(fid_string), then the call of fs_mp3s.get
download(t) ==
    /\ Free(t)
    /\ \E in \in DownloadInputs(t) :
         LET r == Request("download", in[1][1], in[1][2], <<>>, in[2][1], in[2][2], AllUp)
             v == validate_token(r.token, r.idp)
             g == download_gate(r, v)
             log == <<Call("validate.token", v.kind)>>
         IN  IF g.proceed
             THEN Suspend(t, r, v, log, "fs_mp3s.get", "in_get")
             ELSE Respond(t, r, v, log, g.resp)
    /\ UNCHANGED <<fs_videos, nextId, queue, orphaned, handles>>

\* download, lines 116-121: fs_mp3s.get returns the object ("ok") or raises
\* (no such file: "err"; store fault: "raise")
download_get(t) ==
    /\ pc[t] = "in_get"
    /\ \E out \in Outcomes : Finish(t, out, download_result(out, req[t].fid))
    /\ UNCHANGED <<putId, published, fs_videos, nextId, queue, orphaned, handles>>

\* health_check, lines 130-141.  reach is the state of the video store, the
\* audio store and the broker at the time of the request.
health_check(t) ==
    /\ Free(t) /\ t = 1
    /\ \E token \in {"missing", "invalid", "admin"}, reach \in BOOLEAN \X BOOLEAN \X BOOLEAN :
       \E dv \in ping_outcomes(reach[1]), dm \in ping_outcomes(reach[2]),
          open \in is_open_values(reach[3]) :
         LET deps == <<dv, dm, open>>
             r == [Request("health", token, "up", <<>>, FALSE, <<>>, deps)
                      EXCEPT !.reach = reach]
         IN  Respond(t, r, NoVal, health_calls(deps), health_result(r))
    /\ UNCHANGED <<fs_videos, nextId, queue, orphaned, handles>>

\* the response has been sent: the request's task ends, and its slot is
\* free for the task of the next request
task_ends(t) ==
    /\ pc[t] = "done"
    /\ pc' = [pc EXCEPT ![t] = "idle"]
    /\ req' = [req EXCEPT ![t] = NoRequest]
    /\ val' = [val EXCEPT ![t] = NoVal]
    /\ access' = [access EXCEPT ![t] = NoClaim]
    /\ calls' = [calls EXCEPT ![t] = <<>>]
    /\ sent' = [sent EXCEPT ![t] = <<>>]
    /\ putId' = [putId EXCEPT ![t] = 0]
    /\ published' = [published EXCEPT ![t] = NoJob]
    /\ UNCHANGED <<fs_videos, nextId, queue, orphaned, handles>>

Step(t) ==
    \/ task_ends(t)
    \/ login(t)
    \/ upload(t)
    \/ util_upload_put(t)
    \/ util_upload_publish(t)
    \/ download(t)
    \/ download_get(t)
    \/ health_check(t)

Next == \E t \in Tasks : Step(t)

Spec == Init /\ [][Next]_vars

\* every collaborator call returns or raises
Returns(t) == util_upload_put(t) \/ util_upload_publish(t) \/ download_get(t)
FairSpec == Spec /\ \A t \in Tasks : WF_vars(Returns(t))

(* --------------------------- vocabulary -------------------------------- *)
Done(t) == pc[t] = "done"
Serving(t, route) == req[t].route = route
Gated(t) == Serving(t, "upload") \/ Serving(t, "download")
TokenValidated(t) == val[t].kind = "ok"
Decodes(t) ==
    TokenValidated(t) /\ val[t].access.wellformed /\ val[t].access.hasAdmin
IsAdmin(t) == Decodes(t) /\ val[t].access.admin
NonAdmin(t) == Decodes(t) /\ ~val[t].access.admin
Called(t, fn) == \E i \in 1..Len(calls[t]) : calls[t][i].fn = fn
CallEnded(t, fn, outs) ==
    \E i \in 1..Len(calls[t]) : calls[t][i].fn = fn /\ calls[t][i].out \in outs
NoStoreOrBroker(t) ==
    ~Called(t, "fs.put") /\ ~Called(t, "basic_publish") /\ ~Called(t, "fs_mp3s.get")
Response(t) == sent[t][1]
Failed == {"err", "raise"}

(* ------------------------------ claims --------------------------------- *)
\* C1 (as claimed): an authorized upload that carries zero or two-or-more
\* file parts never reaches util.upload (no store write, no publish) and is
\* answered 400 'exactly 1 file required'.
C1_BadPartCountRejected ==
    \A t \in Tasks :
        (Serving(t, "upload") /\ IsAdmin(t) /\ Len(req[t].files) # 1)
        => /\ ~Called(t, "fs.put") /\ ~Called(t, "basic_publish")
           /\ Done(t) => sent[t] = <<Resp(400, "exactly 1 file required")>>

\* C2 (as claimed): an authorized download whose fid is non-empty but is not
\* an ObjectId is answered with a client error (4xx), not a server error.
C2_BadFidIsClientError ==
    \A t \in Tasks :
        (Done(t) /\ Serving(t, "download") /\ IsAdmin(t) /\ req[t].fid_present
            /\ req[t].fid # <<>> /\ ObjectId_raises(req[t].fid))
        => Response(t).status \in 400..499

\* C3: in an upload the publish is only entered after fs.put has returned an
\* id; when fs.put fails the publish is never entered and the request ends
\* with an error response.
C3_StoreBeforePublish ==
    \A t \in Tasks :
        Serving(t, "upload")
        => /\ \A i \in 1..Len(calls[t]) :
                 calls[t][i].fn = "basic_publish"
                 => \E j \in 1..(i - 1) :
                        calls[t][j].fn = "fs.put" /\ calls[t][j].out = "ok"
           /\ CallEnded(t, "fs.put", Failed)
              => /\ ~Called(t, "basic_publish")
                 /\ Done(t) /\ Len(sent[t]) = 1 /\ Response(t).status >= 400
C3_Witness ==
    \E t \in Tasks :
        Done(t) /\ Serving(t, "upload") /\ CallEnded(t, "fs.put", {"err"})

\* C4: when the store write succeeded and the publish failed, the response is
\* a server error, never 'success!', and the written object stays in the
\* video store from then on.
C4_OrphanKept ==
    /\ \A t \in Tasks :
          (Done(t) /\ Serving(t, "upload") /\ CallEnded(t, "fs.put", {"ok"})
              /\ CallEnded(t, "basic_publish", Failed))
          => /\ Response(t).status \in 500..599
             /\ Response(t).body # "success!"
             /\ putId[t] \in fs_videos /\ putId[t] \in orphaned
    /\ orphaned \subseteq fs_videos
C4_Witness ==
    \E t \in Tasks, u \in Tasks :
        /\ Done(t) /\ Serving(t, "upload") /\ CallEnded(t, "basic_publish", {"err"})
        /\ Done(u) /\ Serving(u, "upload") /\ putId[u] > putId[t]
        /\ putId[t] \in fs_videos

\* C5: an upload with a valid admin token and exactly one file part whose
\* store write and publish both succeed is answered 'success!' 200, and the
\* job descriptor it published carries the id its own fs.put returned.
C5_SuccessAndSameId ==
    \A t \in Tasks :
        (Done(t) /\ Serving(t, "upload") /\ IsAdmin(t) /\ Len(req[t].files) = 1
            /\ CallEnded(t, "fs.put", {"ok"}) /\ CallEnded(t, "basic_publish", {"ok"}))
        => /\ sent[t] = <<Resp(200, "success!")>>
           /\ putId[t] # 0 /\ published[t].objectId = putId[t]
           /\ \E i \in 1..Len(queue) : queue[i] = published[t]
C5_Witness ==
    \E t \in Tasks, u \in Tasks :
        /\ t # u /\ Done(t) /\ Serving(t, "upload") /\ Len(req[t].files) = 1
        /\ CallEnded(t, "basic_publish", {"ok"})
        /\ Serving(u, "upload") /\ putId[u] # 0 /\ putId[t] # nextId

\* C6: a validated token whose claim has admin = false gets 401 'not
\* authorized' on upload and on download alike, whatever the file parts or
\* fid, and no store or broker operation is made for it.
C6_NonAdminRejected ==
    \A t \in Tasks :
        (Gated(t) /\ NonAdmin(t))
        => /\ Done(t) /\ sent[t] = <<Resp(401, "not authorized")>>
           /\ NoStoreOrBroker(t)
C6_Witness ==
    \E t \in Tasks :
        /\ Done(t) /\ Serving(t, "download") /\ NonAdmin(t) /\ req[t].fid = GoodFid

\* C7: in upload and download validate.token is the first collaborator call;
\* when it reports an error the response is that error and nothing else is
\* called or checked for the request.
C7_ValidateFirst ==
    \A t \in Tasks :
        Gated(t)
        => /\ calls[t] # <<>> /\ calls[t][1].fn = "validate.token"
           /\ val[t].kind = "err"
              => /\ Done(t) /\ sent[t] = <<val[t].err>>
                 /\ Len(calls[t]) = 1
C7_Witness ==
    \E t \in Tasks :
        /\ Done(t) /\ Serving(t, "upload") /\ req[t].token = "missing"
        /\ req[t].files = <<>> /\ Response(t).status = 401

\* C8: an upload or download rejected for an authorization reason (missing
\* token, bad token, valid token without admin) is answered 401 in all three
\* cases.
AuthRejected(t) ==
    \/ req[t].token = "missing"
    \/ req[t].token = "invalid" /\ req[t].idp = "up"
    \/ NonAdmin(t)
C8_OneAuthStatus ==
    \A t \in Tasks :
        (Done(t) /\ Gated(t) /\ AuthRejected(t)) => Response(t).status = 401
C8_Witness ==
    \E t \in Tasks :
        /\ Done(t) /\ Serving(t, "upload") /\ NonAdmin(t)
        /\ Len(req[t].files) = 1 /\ Response(t).status = 401

\* C9: every request ends with exactly one response; an exception raised by a
\* collaborator call or by claim decoding becomes a 500 response; and every
\* request whose collaborator calls return or raise completes.
Raised(t) ==
    \/ CallEnded(t, "validate.token", {"raise"})
    \/ CallEnded(t, "access.login", {"raise"})
    \/ CallEnded(t, "fs.put", {"raise"})
    \/ CallEnded(t, "basic_publish", {"raise"})
    \/ CallEnded(t, "fs_mp3s.get", Failed)
    \/ CallEnded(t, "mongo_video.ping", {"raise"})
    \/ CallEnded(t, "mongo_mp3.ping", {"raise"})
    \/ Gated(t) /\ TokenValidated(t) /\ ~Decodes(t)
OneResponse(t) ==
    /\ pc[t] \in {"in_put", "in_publish", "in_get"} => sent[t] = <<>>
    /\ Done(t) => /\ Len(sent[t]) = 1
                  /\ Response(t).status \in 200..599
                  /\ Raised(t) => Response(t).status = 500
C9_OneResponseAlways ==
    /\ [](\A t \in Tasks : OneResponse(t))
    /\ \A t \in Tasks : (pc[t] \in {"in_put", "in_publish", "in_get"}) ~> Done(t)
C9_Witness ==
    \E t \in Tasks :
        /\ Done(t) /\ Serving(t, "upload") /\ CallEnded(t, "basic_publish", {"raise"})
        /\ sent[t] = <<Resp(500, "error")>>

\* C10 (as claimed): at any time at most one task is inside a publish on the
\* process-wide channel.
C10_SinglePublisher ==
    Cardinality({t \in Tasks : pc[t] = "in_publish"}) <= 1

\* C11 (as claimed): the health response reflects the dependencies' state at
\* the time of the request: all three reachable gives 200 with three true
\* booleans; exactly one unreachable gives either 200 with that boolean false
\* and the other two true, or 500 with no booleans.
NoBooleans == <<FALSE, FALSE, FALSE>>
Unreachable(t) == {i \in 1..3 : ~req[t].reach[i]}
C11_HealthReflectsState ==
    \A t \in Tasks :
        (Done(t) /\ Serving(t, "health"))
        => /\ Unreachable(t) = {}
              => /\ Response(t).status = 200
                 /\ Response(t).health = <<TRUE, TRUE, TRUE>>
           /\ Cardinality(Unreachable(t)) = 1
              => \/ /\ Response(t).status = 200
                    /\ Response(t).health = req[t].reach
                 \/ /\ Response(t).status = 500
                    /\ Response(t).health = NoBooleans

\* C12: within one upload or download request validate.token, fs.put,
\* basic_publish and fs_mp3s.get are each called at most once; a call that
\* fails is the last call of the request, which ends with an error response.
Collaborators == {"validate.token", "fs.put", "basic_publish", "fs_mp3s.get"}
TimesCalled(t, fn) == Cardinality({i \in 1..Len(calls[t]) : calls[t][i].fn = fn})
C12_NoRetry ==
    \A t \in Tasks :
        Gated(t)
        => /\ \A fn \in Collaborators : TimesCalled(t, fn) <= 1
           /\ \A i \in 1..Len(calls[t]) :
                 calls[t][i].out \in Failed
                 => /\ i = Len(calls[t])
                    /\ Done(t) /\ Len(sent[t]) = 1 /\ Response(t).status >= 400
C12_Witness ==
    \E t \in Tasks :
        /\ Done(t) /\ Serving(t, "upload") /\ CallEnded(t, "fs.put", {"ok"})
        /\ CallEnded(t, "basic_publish", {"err"}) /\ Len(calls[t]) = 3

\* C13: for an authorized download with a well-formed fid every failure of
\* fs_mp3s.get, object not found or store fault, gets the same 500 'internal
\* server error'; a successful get is streamed back named '<fid>.mp3'.
C13_FetchOutcome ==
    \A t \in Tasks :
        (Done(t) /\ Serving(t, "download") /\ IsAdmin(t) /\ req[t].fid_present
            /\ ~ObjectId_raises(req[t].fid))
        => /\ Called(t, "fs_mp3s.get")
           /\ CallEnded(t, "fs_mp3s.get", Failed)
              => sent[t] = <<Resp(500, "internal server error")>>
           /\ CallEnded(t, "fs_mp3s.get", {"ok"})
              => /\ Response(t).status = 200
                 /\ Response(t).download_name = req[t].fid \o Mp3Ext
C13_Witness ==
    \E t \in Tasks :
        /\ Done(t) /\ Serving(t, "download") /\ CallEnded(t, "fs_mp3s.get", {"err"})
        /\ Response(t).status = 500

\* C14: when the token validates but the claim body cannot be decoded (not
\* JSON, or no admin flag) upload and download answer 500 and make no store or
\* broker call.
C14_UndecodableClaim ==
    \A t \in Tasks :
        (Gated(t) /\ TokenValidated(t) /\ ~Decodes(t))
        => /\ Done(t) /\ Len(sent[t]) = 1 /\ Response(t).status = 500
           /\ NoStoreOrBroker(t)
C14_Witness ==
    \E t \in Tasks :
        /\ Done(t) /\ Serving(t, "download") /\ req[t].token = "noflag"
        /\ req[t].fid = GoodFid /\ Response(t).status = 500

\* C15 (as claimed): an upload is answered 'success!' 200 only if its token
\* validated, the claim had admin = true, exactly one file part was attached,
\* and fs.put and basic_publish each ran once without error; a failed store
\* write is answered 5xx, never success.
Success(t) == Done(t) /\ Response(t).status = 200 /\ Response(t).body = "success!"
C15_SuccessOnlyIf ==
    \A t \in Tasks :
        Serving(t, "upload")
        => /\ Success(t)
              => /\ IsAdmin(t)
                 /\ Len(req[t].files) = 1
                 /\ TimesCalled(t, "fs.put") = 1 /\ CallEnded(t, "fs.put", {"ok"})
                 /\ TimesCalled(t, "basic_publish") = 1
                 /\ CallEnded(t, "basic_publish", {"ok"})
           /\ (Done(t) /\ CallEnded(t, "fs.put", Failed))
              => Response(t).status \in 500..599

\* C16: in a download fs_mp3s.get is called only after the token validated,
\* the claim had admin = true, fid was present and non-empty and parsed as an
\* ObjectId; past the authorization an absent or empty fid is answered 400
\* 'fid is required', and an absent, empty or unparseable fid never reaches
\* the store.
BadFid(t) == ~req[t].fid_present \/ req[t].fid = <<>> \/ ObjectId_raises(req[t].fid)
C16_ReadOnlyAfterChecks ==
    \A t \in Tasks :
        Serving(t, "download")
        => /\ Called(t, "fs_mp3s.get")
              => /\ IsAdmin(t) /\ ~BadFid(t)
                 /\ calls[t][1] = Call("validate.token", "ok")
           /\ BadFid(t) => Done(t) /\ ~Called(t, "fs_mp3s.get")
           /\ (IsAdmin(t) /\ (~req[t].fid_present \/ req[t].fid = <<>>))
              => sent[t] = <<Resp(400, "fid is required")>>
C16_Witness ==
    \E t \in Tasks :
        /\ Done(t) /\ Serving(t, "download") /\ IsAdmin(t)
        /\ req[t].fid = Chars(OidLen - 1, "a") /\ ~Called(t, "fs_mp3s.get")

\* C17: health_check validates no token and checks no authorization, calls
\* nothing but the two pings, and changes nothing; its response for a missing
\* or an invalid token is the one a valid admin token gets.
Pings == {"mongo_video.ping", "mongo_mp3.ping"}
HealthIsOpen(t) ==
    (Done(t) /\ Serving(t, "health"))
    => /\ \A i \in 1..Len(calls[t]) : calls[t][i].fn \in Pings
       /\ sent[t] = <<health_result([req[t] EXCEPT !.token = "admin"])>>
HealthStep(t) == pc[t] = "idle" /\ pc'[t] = "done" /\ req'[t].route = "health"
C17_HealthOpenAndPure ==
    /\ [](\A t \in Tasks : HealthIsOpen(t))
    /\ [][(\E t \in Tasks : HealthStep(t))
            => UNCHANGED <<fs_videos, nextId, queue, orphaned, handles>>]_vars
C17_Witness ==
    \E t \in Tasks :
        /\ Done(t) /\ Serving(t, "health") /\ req[t].token = "invalid"
        /\ Response(t).status = 200 /\ Response(t).health = <<TRUE, FALSE, TRUE>>

\* C18: no handler rebinds the process-wide handles, a task that has ended
\* leaves nothing behind in the gateway, and two requests that are equal and
\* get equal answers from the collaborators get equal responses, whatever was
\* served before each of them.
NothingKept(t) ==
    pc[t] = "idle"
    => /\ req[t] = NoRequest /\ val[t] = NoVal /\ access[t] = NoClaim
       /\ calls[t] = <<>> /\ sent[t] = <<>> /\ putId[t] = 0 /\ published[t] = NoJob
SameResponse(t, u) ==
    (Done(t) /\ Done(u) /\ req[t] = req[u] /\ calls[t] = calls[u])
    => sent[t] = sent[u]
====
